---- MODULE Spec2Model ----
(***************************************************************************)
(* One invocation of a table fetch function of the Azure plugin: the list  *)
(* functions (paginated streaming with early termination), the Get and    *)
(* column-hydrate functions (one provider call), the retry policy of the   *)
(* client they call through, and the host's treatment of the result.       *)
(***************************************************************************)
EXTENDS Naturals, Sequences, FiniteSets

\* ------------------------------------------------------------------ bounds
MaxPages == 2
MaxPageLen == 2
MaxBudget == 2
MaxRetries == 1

VARIABLES
    fn,          \* the function invoked
    pages,       \* the provider's pages: a sequence of sequences of items
    budget,      \* rows still wanted by the query when the call starts; 0 = no limit
    qualsEmpty,  \* a key qualifier of a Get is the empty string
    cancelled,   \* the caller's context is cancelled
    pc,          \* position in the function
    call,        \* the provider call in flight or last made
    attempts,    \* attempts made for that call (first try and retries)
    resp,        \* the answer the call ended with
    retryApplied,\* ApplyRetryRules was called on the client
    page,        \* number of pages fetched: result holds pages[page]
    idx,         \* items of the current page already ranged over
    emitted,     \* the items passed to StreamListItem, in order
    log,         \* the SDK and provider calls made, in order
    emitsAfterCancel, \* StreamListItem calls made after the cancellation
    nextsAfterCancel, \* NextWithContext calls made after the cancellation
    retVal,      \* first return value
    retErr,      \* second return value
    hostVal,     \* what the host makes of the result: "row", "none"
    hostErr,     \* the error the host reports for the query
    sessionErr   \* the err GetNewSession returned, "nil" when it gave a session

fetchVars == <<fn, pages, budget, qualsEmpty, cancelled, pc, call, attempts, resp,
               retryApplied, page, idx, emitted, log, emitsAfterCancel,
               nextsAfterCancel, retVal, retErr, hostVal, hostErr, sessionErr>>

\* One call of a transform or of a column function computed from the row alone.
VARIABLES
    tfn,         \* the function called
    item,        \* its input: d.Value, h.Item or the test's resource id
    tpc,         \* "call" before it ran, "returned" after
    out,         \* first return value
    outErr       \* second return value

transformVars == <<tfn, item, tpc, out, outErr>>

\* One run of the release workflow, started by the push of a tag.
VARIABLES
    GITHUB_REF,   \* the tag pushed, without refs/tags/
    hasGoreleaser,\* .goreleaser.yml is in the repository
    tagList,      \* the version tags in the registry when the run starts
    VERSION,      \* the environment variable VERSION
    IDX,          \* the shell variable IDX of the lookup step
    step,         \* the step the job is at
    failedAt,     \* the step that failed, "none" while none did
    built,        \* GoReleaser built the artifacts
    pushed,       \* oras push succeeded
    runIdTagged,  \* the image carries the run id tag
    latestTagged  \* the image carries the tag latest

releaseVars == <<GITHUB_REF, hasGoreleaser, tagList, VERSION, IDX, step, failedAt,
                 built, pushed, runIdTagged, latestTagged>>

\* Two fetches run in parallel by the host; each function maps a fetch to its
\* own value, session and tokens are what the fetches share.
VARIABLES
    session,      \* the session object of the connection
    tokens,       \* the rate limiter's free tokens
    ffn,          \* the function each fetch runs
    fpages,       \* the pages the provider holds for each fetch
    ferrAt,       \* the provider call of each fetch that fails, 0 for none
    fbudget,      \* the row budget of each fetch's query, 0 = no limit
    fpc,          \* position of each fetch
    fcalls,       \* provider calls each fetch has made
    fpage,        \* pages each fetch has received
    fidx,         \* items of its current page each fetch has ranged over
    femitted,     \* the items each fetch passed to StreamListItem
    fret          \* the <<value, error>> each fetch returned

parVars == <<session, tokens, ffn, fpages, ferrAt, fbudget, fpc, fcalls, fpage,
             fidx, femitted, fret>>

auxVars == <<transformVars, releaseVars, parVars>>

vars == <<fetchVars, auxVars>>

\* No transform is running.
TransformIdle ==
    /\ tfn = "none"
    /\ item = <<>>
    /\ tpc = "idle"
    /\ out = <<>>
    /\ outErr = "nil"

\* No release job is running.
ReleaseIdle ==
    /\ GITHUB_REF = <<>>
    /\ hasGoreleaser = FALSE
    /\ tagList = <<>>
    /\ VERSION = <<>>
    /\ IDX = "unset"
    /\ step = "idle"
    /\ failedAt = "none"
    /\ built = FALSE
    /\ pushed = FALSE
    /\ runIdTagged = FALSE
    /\ latestTagged = FALSE

\* No parallel fetches are running.
ParIdle ==
    /\ session = "none"
    /\ tokens = 0
    /\ ffn = <<>>
    /\ fpages = <<>>
    /\ ferrAt = <<>>
    /\ fbudget = <<>>
    /\ fpc = <<>>
    /\ fcalls = <<>>
    /\ fpage = <<>>
    /\ fidx = <<>>
    /\ femitted = <<>>
    /\ fret = <<>>

\* The fetch of the first part of this module is not running.
FetchIdle ==
    /\ fn = "none"
    /\ pages = <<>>
    /\ budget = 0
    /\ qualsEmpty = FALSE
    /\ cancelled = FALSE
    /\ pc = "done"
    /\ call = "none"
    /\ attempts = 0
    /\ resp = "none"
    /\ retryApplied = FALSE
    /\ page = 0
    /\ idx = 0
    /\ emitted = <<>>
    /\ log = <<>>
    /\ emitsAfterCancel = 0
    /\ nextsAfterCancel = 0
    /\ retVal = "nil"
    /\ retErr = "nil"
    /\ hostVal = "none"
    /\ hostErr = "nil"
    /\ sessionErr = "nil"

\* --------------------------------------------------------------- functions
PaginatedListFns ==
    {"listIamRoleDefinitions", "listAppConfigurations", "listPolicyAssignments",
     "listSecurityCenterAutoProvisioning", "listBackendAddressPools",
     "listNetworkWatcherFlowLogs"}

ListFns == PaginatedListFns \cup {"listNetworkWatchers"}

GetFns ==
    {"getIamRoleDefinition", "getAppConfiguration", "getPolicyAssignment",
     "getSecurityCenterAutoProvisioning", "getBackendAddressPool",
     "getNetworkWatcher", "getNetworkWatcherFlowLog"}

HydrateFns ==
    {"listAppConfigurationDiagnosticSettings", "getProvisioningDetails",
     "getContactDetails", "getPolicyDetails", "getSettingDetails",
     "getPricingsDetails"}

SingleItemListFns == {"listSubscriptions", "getSecurityCenterDetails"}

\* getSecurityCenterDetails streams the session's subscription id and makes
\* no provider call.
MakesProviderCall(f) == f # "getSecurityCenterDetails"

AllFns == ListFns \cup GetFns \cup HydrateFns \cup SingleItemListFns

\* Mutant of AppliesRetryRules: the list functions too leave ApplyRetryRules out,
\* as the hydrate functions of the security center table do.
AppliesRetryRules_NotInLists(f) == f \in GetFns \ {"getSecurityCenterAutoProvisioning"}

\* Functions that call ApplyRetryRules on their client before the provider call.
AppliesRetryRules(f) ==
    f \notin {"getSecurityCenterAutoProvisioning", "getProvisioningDetails",
              "getContactDetails", "getPolicyDetails", "getSettingDetails",
              "getPricingsDetails", "getSecurityCenterDetails"}

\* List functions that call d.RowsRemaining after each d.StreamListItem.
ChecksRowsRemaining(f) == f \in ListFns /\ f # "listAppConfigurations"

\* Get functions that return (nil, nil) at once when a key qualifier is "".
HasQualGuard(f) == f \in {"getAppConfiguration", "getBackendAddressPool"}

\* Get functions that return (nil, nil) when the answer's ID is nil.
ChecksID(f) == f \in {"getAppConfiguration", "getBackendAddressPool", "getNetworkWatcher"}

\* The `if err != nil` branch after call c of function f: TRUE when it is
\* `return err, nil` (the error as the value), FALSE when `return nil, err`.
ReturnsErrAsValue(f, c) ==
    \/ f = "listSecurityCenterAutoProvisioning"
    \/ f = "listPolicyAssignments" /\ c = "List"
    \/ f \in {"getPolicyAssignment", "getSecurityCenterAutoProvisioning",
              "getProvisioningDetails", "getContactDetails", "getPolicyDetails",
              "getSettingDetails", "getPricingsDetails"}

\* The codes given to isNotFoundError in the IgnoreConfig of the table's GetConfig.
IgnoreList(f) ==
    CASE f \in {"getAppConfiguration", "getBackendAddressPool", "getNetworkWatcher",
                "getNetworkWatcherFlowLog"}
             -> {"ResourceNotFound", "ResourceGroupNotFound", "404"}
      [] f \in {"getPolicyAssignment", "getIamRoleDefinition"}
             -> {"ResourceNotFound", "ResourceGroupNotFound"}
      [] OTHER -> {}

\* ---------------------------------------------------------------- provider
NotFoundCodes == {"ResourceNotFound", "ResourceGroupNotFound", "404"}
TransientCodes == {"429"}
FatalCodes == {"AuthorizationFailed"}
ErrorCodes == NotFoundCodes \cup TransientCodes \cup FatalCodes

IsError(r) == r \in ErrorCodes

RECURSIVE SumTo(_, _)
SumTo(lens, k) == IF k = 0 THEN 0 ELSE lens[k] + SumTo(lens, k - 1)

\* The pages of a provider whose page k holds lens[k] items; items are numbered
\* in the provider's order.
MkPages(lens) ==
    [k \in 1..Len(lens) |-> [i \in 1..lens[k] |-> SumTo(lens, k - 1) + i]]

PageSeqs(maxPages) ==
    {MkPages(lens) : lens \in UNION {[1..n -> 0..MaxPageLen] : n \in 1..maxPages}}

RECURSIVE Concat(_, _)
Concat(ps, k) == IF k = 0 THEN <<>> ELSE Concat(ps, k - 1) \o ps[k]

AllItems == Concat(pages, Len(pages))

Count(s, e) == Cardinality({i \in 1..Len(s) : s[i] = e})

IsPrefix(s, t) == Len(s) <= Len(t) /\ SubSeq(t, 1, Len(s)) = s

\* ------------------------------------------------------------- SDK helpers
\* d.RowsRemaining(ctx): 0 when the context is cancelled or the limit is hit,
\* else the number of rows required to reach the limit.
RowsRemaining ==
    IF cancelled THEN 0
    ELSE IF budget = 0 THEN MaxPages * MaxPageLen + 1
    ELSE IF Len(emitted) >= budget THEN 0 ELSE budget - Len(emitted)

\* Mutant of Values: the result is never advanced, NextWithContext leaves the
\* first page in place.
Values_FirstPage == IF page = 0 THEN <<>> ELSE pages[1]

\* result.Values(): the items of the page the result holds.
Values == IF page = 0 THEN <<>> ELSE pages[page]

\* result.NotDone(): the provider has a further page.
NotDone == page < Len(pages)

\* The retry bound of the client: the configured one once ApplyRetryRules ran.
RetryBound == IF retryApplied THEN MaxRetries ELSE 0

\* isNotFoundError(codes)(err)
isNotFoundError(codes, err) == err \in codes

Return(v, e) ==
    /\ pc' = "returned"
    /\ retVal' = v
    /\ retErr' = e

\* -------------------------------------------------------------------- Init
Init ==
    /\ fn \in AllFns
    /\ pages \in (IF fn \in PaginatedListFns THEN PageSeqs(MaxPages)
                  ELSE IF fn = "listNetworkWatchers" THEN PageSeqs(1)
                  ELSE {MkPages(<<1>>)})
    /\ budget \in (IF fn \in ListFns \cup SingleItemListFns THEN 0..MaxBudget ELSE {0})
    /\ qualsEmpty \in (IF fn \in GetFns THEN BOOLEAN ELSE {FALSE})
    /\ cancelled \in (IF fn \in ListFns THEN BOOLEAN ELSE {FALSE})
    /\ pc = "start"
    /\ call = "none"
    /\ attempts = 0
    /\ resp = "none"
    /\ retryApplied = FALSE
    /\ page = 0
    /\ idx = 0
    /\ emitted = <<>>
    /\ log = <<>>
    /\ emitsAfterCancel = 0
    /\ nextsAfterCancel = 0
    /\ retVal = "nil"
    /\ retErr = "nil"
    /\ hostVal = "none"
    /\ hostErr = "nil"
    /\ sessionErr = "nil"
    /\ TransformIdle
    /\ ReleaseIdle
    /\ ParIdle

\* ----------------------------------------------------------------- actions
\* The empty-qualifier guard at the head of a Get function.
CheckQuals ==
    /\ pc = "start"
    /\ IF HasQualGuard(fn) /\ qualsEmpty
       THEN Return("nil", "nil")
       ELSE pc' = "session" /\ UNCHANGED <<retVal, retErr>>
    /\ UNCHANGED auxVars
    /\ UNCHANGED <<sessionErr, fn, pages, budget,
                   qualsEmpty, cancelled, call, attempts, resp,
                   retryApplied, page, idx, emitted, log, emitsAfterCancel,
                   nextsAfterCancel, hostVal, hostErr>>

\* Mutant of GetNewSession: the err is dropped (session, _ := GetNewSession)
\* and the function goes on as if it had a session.
GetNewSession_ErrDropped ==
    /\ pc = "session"
    /\ \E err \in {"nil", "SessionError"} :
         /\ sessionErr' = err
         /\ pc' = IF ~MakesProviderCall(fn) THEN "stream"
                  ELSE IF AppliesRetryRules(fn) THEN "retry" ELSE "call"
         /\ page' = IF MakesProviderCall(fn) THEN page ELSE 1
         /\ UNCHANGED <<retVal, retErr>>
    /\ log' = Append(log, "GetNewSession")
    /\ UNCHANGED auxVars
    /\ UNCHANGED <<fn, pages, budget, qualsEmpty, cancelled, call, attempts, resp,
                   retryApplied, idx, emitted, emitsAfterCancel,
                   nextsAfterCancel, hostVal, hostErr>>

\* session, err := GetNewSession(ctx, d, "MANAGEMENT"); if err != nil { return nil, err }
\* With a session, getSecurityCenterDetails has its one item, the subscription
\* id, at hand; every other function builds a client for its provider call.
GetNewSession ==
    /\ pc = "session"
    /\ \E err \in {"nil", "SessionError"} :
         /\ sessionErr' = err
         /\ IF err = "nil"
            THEN /\ pc' = IF ~MakesProviderCall(fn) THEN "stream"
                          ELSE IF AppliesRetryRules(fn) THEN "retry" ELSE "call"
                 /\ page' = IF MakesProviderCall(fn) THEN page ELSE 1
                 /\ UNCHANGED <<retVal, retErr>>
            ELSE Return("nil", err) /\ UNCHANGED page
    /\ log' = Append(log, "GetNewSession")
    /\ UNCHANGED auxVars
    /\ UNCHANGED <<fn, pages, budget, qualsEmpty, cancelled, call, attempts, resp,
                   retryApplied, idx, emitted, emitsAfterCancel,
                   nextsAfterCancel, hostVal, hostErr>>

\* ApplyRetryRules(ctx, &client, d.Connection)
ApplyRetryRules ==
    /\ pc = "retry"
    /\ retryApplied' = TRUE
    /\ log' = Append(log, "ApplyRetryRules")
    /\ pc' = "call"
    /\ UNCHANGED auxVars
    /\ UNCHANGED <<sessionErr, fn, pages, budget,
                   qualsEmpty, cancelled, call, attempts, resp,
                   page, idx, emitted, emitsAfterCancel, nextsAfterCancel,
                   retVal, retErr, hostVal, hostErr>>

\* The first provider call: client.List / ListAll for a list function,
\* client.Get / GetByID / List for a Get or hydrate function.
FirstCall ==
    /\ pc = "call"
    /\ call' = IF fn \in ListFns THEN "List" ELSE "Get"
    /\ attempts' = 0
    /\ log' = Append(log, call')
    /\ pc' = "inflight"
    /\ UNCHANGED auxVars
    /\ UNCHANGED <<sessionErr, fn, pages, budget,
                   qualsEmpty, cancelled, resp, retryApplied,
                   page, idx, emitted, emitsAfterCancel, nextsAfterCancel,
                   retVal, retErr, hostVal, hostErr>>

\* The answers the provider can give to the call in flight.
Answers == (IF fn \in GetFns THEN {"ok", "empty"} ELSE {"ok"}) \cup ErrorCodes

\* One attempt of the call in flight: the provider answers; a transient error is
\* sent again while the client's retry bound allows, any other answer ends the call.
Respond ==
    /\ pc = "inflight"
    /\ attempts' = attempts + 1
    /\ \E o \in Answers :
         IF o \in TransientCodes /\ attempts + 1 <= RetryBound
         THEN /\ pc' = "inflight"
              /\ UNCHANGED <<resp, page, idx>>
         ELSE /\ pc' = "got"
              /\ resp' = o
              /\ page' = IF o = "ok" /\ fn \in ListFns \cup SingleItemListFns
                         THEN page + 1 ELSE page
              /\ idx' = IF o = "ok" THEN 0 ELSE idx
    /\ UNCHANGED auxVars
    /\ UNCHANGED <<sessionErr, fn, pages, budget,
                   qualsEmpty, cancelled, call, retryApplied,
                   emitted, log, emitsAfterCancel, nextsAfterCancel,
                   retVal, retErr, hostVal, hostErr>>

\* A list function after List or NextWithContext returned:
\* `if err != nil { return ... }`, else range over result.Values().
HandleListResult ==
    /\ pc = "got"
    /\ fn \in ListFns \cup SingleItemListFns
    /\ IF IsError(resp)
       THEN IF ReturnsErrAsValue(fn, call)
            THEN Return(resp, "nil")
            ELSE Return("nil", resp)
       ELSE pc' = "stream" /\ UNCHANGED <<retVal, retErr>>
    /\ UNCHANGED auxVars
    /\ UNCHANGED <<sessionErr, fn, pages, budget,
                   qualsEmpty, cancelled, call, attempts, resp,
                   retryApplied, page, idx, emitted, log, emitsAfterCancel,
                   nextsAfterCancel, hostVal, hostErr>>

\* A Get or hydrate function after its call returned: the error branch, the
\* ID check where there is one, and the return of the answer.
HandleGetResult ==
    /\ pc = "got"
    /\ fn \in GetFns \cup HydrateFns
    /\ IF IsError(resp)
       THEN IF ReturnsErrAsValue(fn, call)
            THEN Return(resp, "nil")
            ELSE Return("nil", resp)
       ELSE IF fn \in HydrateFns
            THEN Return(IF fn = "getPolicyDetails" THEN "item" ELSE "maps", "nil")
            ELSE IF resp = "empty"
                 THEN IF ChecksID(fn) THEN Return("nil", "nil")
                                      ELSE Return("itemWithoutID", "nil")
                 ELSE Return("item", "nil")
    /\ UNCHANGED auxVars
    /\ UNCHANGED <<sessionErr, fn, pages, budget,
                   qualsEmpty, cancelled, call, attempts, resp,
                   retryApplied, page, idx, emitted, log, emitsAfterCancel,
                   nextsAfterCancel, hostVal, hostErr>>

\* d.StreamListItem(ctx, item) for the next item of result.Values().
StreamListItem ==
    /\ pc = "stream"
    /\ idx < Len(Values)
    /\ emitted' = Append(emitted, Values[idx + 1])
    /\ idx' = idx + 1
    /\ log' = Append(log, "StreamListItem")
    /\ emitsAfterCancel' = IF cancelled THEN emitsAfterCancel + 1 ELSE emitsAfterCancel
    /\ pc' = IF ChecksRowsRemaining(fn) THEN "rows" ELSE "stream"
    /\ UNCHANGED auxVars
    /\ UNCHANGED <<sessionErr, fn, pages, budget,
                   qualsEmpty, cancelled, call, attempts, resp,
                   retryApplied, page, nextsAfterCancel, retVal, retErr,
                   hostVal, hostErr>>

\* Mutant of CheckRowsRemaining: `break` in place of `return nil, nil`, so the
\* function leaves the range and goes on to the NotDone loop.
CheckRowsRemaining_Break ==
    /\ pc = "rows"
    /\ pc' = IF RowsRemaining = 0
             THEN (IF fn \in PaginatedListFns THEN "notdone" ELSE "returned")
             ELSE "stream"
    /\ log' = Append(log, "RowsRemaining")
    /\ UNCHANGED auxVars
    /\ UNCHANGED <<sessionErr, fn, pages, budget,
                   qualsEmpty, cancelled, call, attempts, resp,
                   retryApplied, page, idx, emitted, emitsAfterCancel,
                   nextsAfterCancel, retVal, retErr, hostVal, hostErr>>

\* if d.RowsRemaining(ctx) == 0 { return nil, nil }
CheckRowsRemaining ==
    /\ pc = "rows"
    /\ IF RowsRemaining = 0
       THEN Return("nil", "nil")
       ELSE pc' = "stream" /\ UNCHANGED <<retVal, retErr>>
    /\ log' = Append(log, "RowsRemaining")
    /\ UNCHANGED auxVars
    /\ UNCHANGED <<sessionErr, fn, pages, budget,
                   qualsEmpty, cancelled, call, attempts, resp,
                   retryApplied, page, idx, emitted, emitsAfterCancel,
                   nextsAfterCancel, hostVal, hostErr>>

\* The range over result.Values() ends: a paginated function goes on to its
\* NotDone loop, the others return (nil, err) with err nil.
RangeEnd ==
    /\ pc = "stream"
    /\ idx = Len(Values)
    /\ IF fn \in PaginatedListFns
       THEN pc' = "notdone" /\ UNCHANGED <<retVal, retErr>>
       ELSE Return("nil", "nil")
    /\ UNCHANGED auxVars
    /\ UNCHANGED <<sessionErr, fn, pages, budget,
                   qualsEmpty, cancelled, call, attempts, resp,
                   retryApplied, page, idx, emitted, log, emitsAfterCancel,
                   nextsAfterCancel, hostVal, hostErr>>

\* Mutant of CheckNotDone: the loop body fetches the next page without waiting
\* on the rate limiter.
CheckNotDone_NoWait ==
    /\ pc = "notdone"
    /\ IF NotDone
       THEN pc' = "next" /\ UNCHANGED <<retVal, retErr>>
       ELSE Return("nil", "nil")
    /\ UNCHANGED auxVars
    /\ UNCHANGED <<sessionErr, fn, pages, budget,
                   qualsEmpty, cancelled, call, attempts, resp,
                   retryApplied, page, idx, emitted, log, emitsAfterCancel,
                   nextsAfterCancel, hostVal, hostErr>>

\* for result.NotDone() { ... }; after the loop, return nil, err with err nil.
CheckNotDone ==
    /\ pc = "notdone"
    /\ IF NotDone
       THEN pc' = "wait" /\ UNCHANGED <<retVal, retErr>>
       ELSE Return("nil", "nil")
    /\ UNCHANGED auxVars
    /\ UNCHANGED <<sessionErr, fn, pages, budget,
                   qualsEmpty, cancelled, call, attempts, resp,
                   retryApplied, page, idx, emitted, log, emitsAfterCancel,
                   nextsAfterCancel, hostVal, hostErr>>

\* Mutant of WaitForListRateLimit: the limiter never lets the function go on.
WaitForListRateLimit_NeverReturns ==
    /\ pc = "wait"
    /\ FALSE
    /\ UNCHANGED vars

\* d.WaitForListRateLimit(ctx)
WaitForListRateLimit ==
    /\ pc = "wait"
    /\ log' = Append(log, "WaitForListRateLimit")
    /\ pc' = "next"
    /\ UNCHANGED auxVars
    /\ UNCHANGED <<sessionErr, fn, pages, budget,
                   qualsEmpty, cancelled, call, attempts, resp,
                   retryApplied, page, idx, emitted, emitsAfterCancel,
                   nextsAfterCancel, retVal, retErr, hostVal, hostErr>>

\* err = result.NextWithContext(ctx)
NextWithContext ==
    /\ pc = "next"
    /\ call' = "Next"
    /\ attempts' = 0
    /\ log' = Append(log, "NextWithContext")
    /\ nextsAfterCancel' = IF cancelled THEN nextsAfterCancel + 1 ELSE nextsAfterCancel
    /\ pc' = "inflight"
    /\ UNCHANGED auxVars
    /\ UNCHANGED <<sessionErr, fn, pages, budget,
                   qualsEmpty, cancelled, resp, retryApplied,
                   page, idx, emitted, emitsAfterCancel, retVal, retErr,
                   hostVal, hostErr>>

\* The caller cancels the context while a list function runs.
Cancel ==
    /\ fn \in ListFns
    /\ ~cancelled
    /\ pc \notin {"returned", "done"}
    /\ cancelled' = TRUE
    /\ UNCHANGED auxVars
    /\ UNCHANGED <<sessionErr, fn, pages, budget,
                   qualsEmpty, pc, call, attempts, resp,
                   retryApplied, page, idx, emitted, log, emitsAfterCancel,
                   nextsAfterCancel, retVal, retErr, hostVal, hostErr>>

\* The host takes the result. For a Get, an error the table's IgnoreConfig
\* accepts becomes an empty result, any other error fails the query, and a
\* non-nil value without an error becomes the row. A list function's value is
\* dropped and its error fails the query. A hydrate's value fills the column.
Host ==
    /\ pc = "returned"
    /\ pc' = "done"
    /\ IF retErr # "nil"
       THEN /\ hostVal' = "none"
            /\ hostErr' = IF fn \in GetFns /\ isNotFoundError(IgnoreList(fn), retErr)
                          THEN "nil" ELSE retErr
       ELSE /\ hostErr' = "nil"
            /\ hostVal' = IF retVal = "nil" \/ fn \in ListFns \cup SingleItemListFns
                          THEN "none"
                          ELSE IF fn \in GetFns THEN "row" ELSE "column"
    /\ UNCHANGED auxVars
    /\ UNCHANGED <<sessionErr, fn, pages, budget,
                   qualsEmpty, cancelled, call, attempts, resp,
                   retryApplied, page, idx, emitted, log, emitsAfterCancel,
                   nextsAfterCancel, retVal, retErr>>

Next ==
    \/ CheckQuals
    \/ GetNewSession
    \/ ApplyRetryRules
    \/ FirstCall
    \/ Respond
    \/ HandleListResult
    \/ HandleGetResult
    \/ StreamListItem
    \/ CheckRowsRemaining
    \/ RangeEnd
    \/ CheckNotDone
    \/ WaitForListRateLimit
    \/ NextWithContext
    \/ Cancel
    \/ Host

Spec == Init /\ [][Next]_vars

\* ------------------------------------------------------------------- types
TypeOK ==
    /\ fn \in AllFns
    /\ pc \in {"start", "session", "retry", "call", "inflight", "got", "stream",
               "rows", "notdone", "wait", "next", "returned", "done"}
    /\ page \in 0..Len(pages)
    /\ idx \in 0..MaxPageLen
    /\ attempts \in 0..(MaxRetries + 1)
    /\ budget \in 0..MaxBudget

Returned == pc \in {"returned", "done"}

\* The last call the function made is a d.StreamListItem.
AfterEmit == ~Returned /\ Len(log) > 0 /\ log[Len(log)] = "StreamListItem"

\* A step of the function itself (not of the caller cancelling the context).
ProgramStep == pc' # pc \/ log' # log

\* ------------------------------------------------------------------ claims

\* C1: in every list function, for every row budget b >= 1 and every page
\* sequence, the number of StreamListItem calls of one invocation never exceeds b.
C1_EmitsWithinBudget ==
    (fn \in ListFns /\ budget >= 1) => Count(log, "StreamListItem") <= budget

\* C2: in every list function, once RowsRemaining would report 0 after an emitted
\* item, the next step of the function is the return of (nil, nil): no further
\* StreamListItem, WaitForListRateLimit or NextWithContext call is made.
C2_StopsWhenRowsRemainingIsZero ==
    [][(fn \in ListFns /\ AfterEmit /\ RowsRemaining = 0 /\ ProgramStep)
          => (pc' = "returned" /\ retVal' = "nil" /\ retErr' = "nil"
              /\ emitted' = emitted)]_vars

\* C3: a paginated list function that returns without an error, the row budget
\* never having been reached, has fetched every page the provider had and
\* emitted every item of every page.
C3_AllPagesUnlessBudget ==
    (fn \in PaginatedListFns /\ Returned /\ retErr = "nil" /\ RowsRemaining # 0)
        => (page = Len(pages) /\ emitted = AllItems)

\* C4: in every list function, an error from the first List call or a later
\* NextWithContext ends the function with that error as its error result
\* (non-nil second return value), and nothing is emitted after the failing fetch.
C4_FetchErrorIsErrorResult ==
    (fn \in ListFns /\ Returned /\ IsError(resp))
        => (retErr = resp /\ log[Len(log)] \in {"List", "NextWithContext"})

\* C5: for every Get function, a not-found error of the provider gives an empty
\* result (no row, no error) when the table's ignore-list holds its code, and is
\* otherwise propagated as the error; it never becomes a returned row.
C5_NotFoundOnGet ==
    (fn \in GetFns /\ pc = "done" /\ resp \in NotFoundCodes)
        => /\ hostVal = "none"
           /\ hostErr = IF resp \in IgnoreList(fn) THEN "nil" ELSE resp

\* C6: a transient error on the fetch of a page of a list operation is sent
\* again, and ends the call only when the configured number of retries is used
\* up; no call is attempted more than that bound plus one times.
C6_TransientRetriedUpToBound ==
    fn \in ListFns =>
        /\ attempts <= MaxRetries + 1
        /\ (pc \in {"got", "returned", "done"} /\ resp \in TransientCodes)
               => attempts = MaxRetries + 1

\* C6 witness: the fetch of a later page failed with a transient error after
\* the last allowed retry and the function returned.
C6_Witness ==
    /\ fn \in PaginatedListFns
    /\ call = "Next"
    /\ resp \in TransientCodes
    /\ attempts = MaxRetries + 1
    /\ Returned

ProviderCalls == {"List", "Get", "NextWithContext"}

\* C7: every provider call of a list, get or column-hydrate function is made on a
\* client to which ApplyRetryRules was applied earlier in the same invocation.
C7_RetryRulesBeforeEveryCall ==
    \A i \in 1..Len(log) :
        log[i] \in ProviderCalls => \E j \in 1..(i - 1) : log[j] = "ApplyRetryRules"

\* C8: in every paginated list function each NextWithContext call is immediately
\* preceded by exactly one WaitForListRateLimit call, no wait is made before the
\* first page is fetched, and every wait is followed by its NextWithContext: the
\* waits and the next-page fetches are equal in number.
C8_OneWaitBeforeEachNext ==
    fn \in PaginatedListFns =>
        /\ \A i \in 1..Len(log) :
               /\ log[i] = "NextWithContext"
                      => /\ i > 1 /\ log[i - 1] = "WaitForListRateLimit"
                         /\ i > 2 /\ log[i - 2] # "WaitForListRateLimit"
               /\ log[i] = "WaitForListRateLimit"
                      => /\ \E j \in 1..(i - 1) : log[j] = "List"
                         /\ page >= 1
                         /\ i < Len(log) => log[i + 1] = "NextWithContext"
        /\ pc # "next" =>
               Count(log, "WaitForListRateLimit") = Count(log, "NextWithContext")

\* C8 witness: a run that waited, fetched the last page and returned.
C8_Witness ==
    /\ fn \in PaginatedListFns
    /\ Count(log, "NextWithContext") = Len(pages) - 1
    /\ Count(log, "NextWithContext") >= 1
    /\ resp = "ok"
    /\ pc = "done"

\* C9: for every list function the items emitted are a prefix of the provider's
\* pages concatenated in page order: every item of the pages before the current
\* one, then the first items of the current page, each once and in order.
C9_EmittedIsPrefixOfPages ==
    fn \in ListFns =>
        /\ IsPrefix(emitted, AllItems)
        /\ page = 0 => emitted = <<>>
        /\ (page >= 1 /\ idx <= Len(pages[page]))
               => emitted = Concat(pages, page - 1) \o SubSeq(pages[page], 1, idx)

\* C9 witness: a run over at least two pages that emitted every item.
C9_Witness ==
    /\ fn \in ListFns
    /\ pc = "done"
    /\ page >= 2
    /\ Len(emitted) >= 3
    /\ emitted = AllItems

\* C10: once the caller's context is cancelled, a list function emits at most
\* the item in progress and issues no further next-page fetch; with a context
\* cancelled from the start no next-page fetch is ever issued.
C10_CancelStopsTheList ==
    (fn \in ListFns /\ cancelled) => (emitsAfterCancel <= 1 /\ nextsAfterCancel = 0)

\* The provider calls a list function has issued, and those that have ended.
CallsIssued == Count(log, "List") + Count(log, "NextWithContext")
CallsEnded == page + (IF IsError(resp) THEN 1 ELSE 0)

\* C11: within one list invocation at most one page request is in flight: the
\* fetch of the next page is issued only when every item of the pages fetched so
\* far has been emitted, and no item is emitted of a page not yet fetched.
C11_OnePageInFlight ==
    fn \in PaginatedListFns =>
        /\ CallsIssued = CallsEnded + (IF pc = "inflight" THEN 1 ELSE 0)
        /\ (pc \in {"wait", "next"} \/ (pc = "inflight" /\ call = "Next"))
               => emitted = Concat(pages, page)
        /\ Len(emitted) <= Len(Concat(pages, page))

\* C11 witness: the fetch of the second page is in flight after the two items of
\* the first page were emitted.
C11_Witness ==
    /\ fn \in PaginatedListFns
    /\ pc = "inflight"
    /\ call = "Next"
    /\ page = 1
    /\ Len(emitted) = 2

\* C13: whenever a Get or column-hydrate function of this list receives an error
\* from its API call, its error result is that error and its value result is nil.
C13_ApiErrorIsErrorResult ==
    (/\ fn \in {"getSecurityCenterAutoProvisioning", "getProvisioningDetails",
                "getContactDetails", "getPolicyDetails", "getSettingDetails",
                "getPricingsDetails", "getPolicyAssignment"}
     /\ Returned
     /\ IsError(resp))
        => (retErr = resp /\ retVal = "nil")

\* C18: getAppConfiguration and getBackendAddressPool, and the Get function of
\* every table keyed by name and resource_group (getNetworkWatcher), return
\* (nil, nil) when a key qualifier is empty, before any session or provider call.
C18_EmptyQualifierReturnsEmpty ==
    (/\ fn \in {"getAppConfiguration", "getBackendAddressPool", "getNetworkWatcher"}
     /\ qualsEmpty
     /\ pc # "start")
        => (Returned /\ retVal = "nil" /\ retErr = "nil" /\ log = <<>>)

\* C19: when the provider answers a Get with success and empty data (ID nil),
\* the Get function returns (nil, nil), so the host never gets a row without ID.
C19_EmptyDataReturnsEmpty ==
    (/\ fn \in {"getAppConfiguration", "getBackendAddressPool", "getNetworkWatcher",
                "getNetworkWatcherFlowLog", "getIamRoleDefinition"}
     /\ resp = "empty"
     /\ Returned)
        => (retVal = "nil" /\ retErr = "nil" /\ hostVal = "none")

\* ===================================================== transforms (C14, C20)
\* A string is the sequence of its characters, so that lower-casing and
\* concatenation are computed and not assumed.
MaxIdLen == 3
MaxConnections == 1

\* The characters a resource id or a subscription id is made of here.
IdChars == {"a", "B", "7", "-"}

UpperChars == {"B", "C", "M", "S"}

\* strings.ToLower / terraform lower(), on the characters that occur.
LowerChar(c) ==
    CASE c = "B" -> "b"
      [] c = "C" -> "c"
      [] c = "M" -> "m"
      [] c = "S" -> "s"
      [] OTHER -> c

ToLower(s) == [i \in 1..Len(s) |-> LowerChar(s[i])]

Strings(n) == UNION {[1..k -> IdChars] : k \in 0..n}

\* "azure://"
AzureScheme ==
    <<"a", "z", "u", "r", "e", ":", "/", "/">>

\* "/subscriptions/"
SubscriptionsPart ==
    <<"/", "s", "u", "b", "s", "c", "r", "i", "p", "t", "i", "o", "n", "s",
      "/">>

\* "/providers/Microsoft.Security/securityCenter"
SecurityCenterPart ==
    <<"/", "p", "r", "o", "v", "i", "d", "e", "r", "s", "/", "M", "i", "c",
      "r", "o", "s", "o", "f", "t", ".", "S", "e", "c", "u", "r", "i", "t",
      "y", "/", "s", "e", "c", "u", "r", "i", "t", "y", "C", "e", "n", "t",
      "e", "r">>

securityCenterAkas_NotLowered(subscriptionID) ==
    LET id == SubscriptionsPart \o subscriptionID \o SecurityCenterPart
    IN  <<AzureScheme \o id, AzureScheme \o id>>

\* id := "/subscriptions/" + subscriptionID + "/providers/Microsoft.Security/securityCenter"
\* akas := []string{"azure://" + id, "azure://" + strings.ToLower(id)}
securityCenterAkas(subscriptionID) ==
    LET id == SubscriptionsPart \o subscriptionID \o SecurityCenterPart
    IN  <<AzureScheme \o id, AzureScheme \o ToLower(id)>>

\* output "resource_aka": "azure://${id}"
resource_aka(id) == AzureScheme \o id

\* output "resource_aka_lower": "azure://${lower(id)}"
resource_aka_lower(id) == AzureScheme \o ToLower(id)

\* A *[]PrivateEndpointConnectionReference: <<>> is the nil pointer, <<l>> points
\* to the list l, which may be empty.
ConnectionLists == UNION {[1..k -> {"connection"}] : k \in 0..MaxConnections}

ConnectionPointers == {<<>>} \cup {<<l>> : l \in ConnectionLists}

ConfigurationStores ==
    [PublicNetworkAccess : {"", "Enabled", "Disabled"},
     PrivateEndpointConnections : ConnectionPointers]

\* The body of getPublicNetworkAccess.
getPublicNetworkAccess(configurationStore) ==
    IF configurationStore.PublicNetworkAccess = ""
       /\ configurationStore.PrivateEndpointConnections = <<>>
    THEN "Enabled"
    ELSE IF configurationStore.PublicNetworkAccess = ""
            /\ configurationStore.PrivateEndpointConnections # <<>>
         THEN "Disabled"
         ELSE configurationStore.PublicNetworkAccess

TransformFns == {"securityCenterAkas", "azure_public_ip", "getPublicNetworkAccess"}

InitTransform ==
    /\ FetchIdle
    /\ ReleaseIdle
    /\ ParIdle
    /\ tfn \in TransformFns
    /\ item \in (IF tfn = "getPublicNetworkAccess" THEN ConfigurationStores
                 ELSE Strings(MaxIdLen))
    /\ tpc = "call"
    /\ out = <<>>
    /\ outErr = "nil"

\* The host calls securityCenterAkas on the subscription id of the row.
CallSecurityCenterAkas ==
    /\ tpc = "call" /\ tfn = "securityCenterAkas"
    /\ out' = securityCenterAkas(item)
    /\ outErr' = "nil"
    /\ tpc' = "returned"
    /\ UNCHANGED <<fetchVars, releaseVars, parVars, tfn, item>>

\* The test evaluates its two outputs on the id of the resource it created.
EvalTestOutputs ==
    /\ tpc = "call" /\ tfn = "azure_public_ip"
    /\ out' = <<resource_aka(item), resource_aka_lower(item)>>
    /\ outErr' = "nil"
    /\ tpc' = "returned"
    /\ UNCHANGED <<fetchVars, releaseVars, parVars, tfn, item>>

\* The host calls getPublicNetworkAccess on a configuration store row.
CallGetPublicNetworkAccess ==
    /\ tpc = "call" /\ tfn = "getPublicNetworkAccess"
    /\ out' = getPublicNetworkAccess(item)
    /\ outErr' = "nil"
    /\ tpc' = "returned"
    /\ UNCHANGED <<fetchVars, releaseVars, parVars, tfn, item>>

NextTransform ==
    \/ CallSecurityCenterAkas
    \/ EvalTestOutputs
    \/ CallGetPublicNetworkAccess

SpecTransform == InitTransform /\ [][NextTransform]_vars

HasUpper(s) == \E i \in 1..Len(s) : s[i] \in UpperChars

\* The resource id the akas are made from.
AkasID ==
    IF tfn = "securityCenterAkas"
    THEN SubscriptionsPart \o item \o SecurityCenterPart
    ELSE item

\* C14: the akas are exactly two strings, "azure://" followed by the id as
\* given and "azure://" followed by the id in lower case (no upper-case
\* letter is left in it); for securityCenterAkas the id is
\* /subscriptions/<subscriptionID>/providers/Microsoft.Security/securityCenter;
\* the two entries are equal whenever the id has no upper-case letter.
C14_AkasAreIdAndLowerCasedId ==
    (tfn \in {"securityCenterAkas", "azure_public_ip"} /\ tpc = "returned") =>
        /\ Len(out) = 2
        /\ out[1] = AzureScheme \o AkasID
        /\ Len(out[2]) = Len(out[1])
        /\ \A i \in 1..Len(out[2]) : out[2][i] = LowerChar(out[1][i])
        /\ ~HasUpper(out[2])
        /\ (~HasUpper(AkasID) => out[2] = out[1])
        /\ outErr = "nil"

\* securityCenterAkas has run on a subscription id with an upper-case letter.
C14_Witness ==
    /\ tfn = "securityCenterAkas" /\ tpc = "returned"
    /\ Len(item) = 2 /\ HasUpper(item)
    /\ out[1] # out[2]

\* C20: getPublicNetworkAccess returns "Enabled" when PublicNetworkAccess is
\* empty and the store has no private endpoint connections, "Disabled" when it
\* is empty and there are connections, the store's own value otherwise; the
\* value is never empty and the error is always nil.
C20_PublicNetworkAccessDefaulted ==
    (tfn = "getPublicNetworkAccess" /\ tpc = "returned") =>
        LET noConnections ==
                \/ item.PrivateEndpointConnections = <<>>
                \/ item.PrivateEndpointConnections[1] = <<>>
        IN  /\ outErr = "nil"
            /\ out # ""
            /\ out = IF item.PublicNetworkAccess # "" THEN item.PublicNetworkAccess
                     ELSE IF noConnections THEN "Enabled" ELSE "Disabled"

\* ================================================ release workflow (C15..C17)
MaxTags == 2

Digits == {"0", "1", "2", "3", "4", "5", "6", "7", "8", "9"}

\* The positions a match of [0-9]+ can end at when it starts at one of ps.
MatchDigits(s, ps) ==
    {q \in 1..Len(s) : \E p \in ps : p < q /\ \A i \in (p + 1)..q : s[i] \in Digits}

\* The positions a match of the literal lit can end at when it starts at one of ps.
MatchLiteral(s, ps, lit) ==
    {p + Len(lit) : p \in {x \in ps : /\ x + Len(lit) <= Len(s)
                                        /\ SubSeq(s, x + 1, x + Len(lit)) = lit}}

\* ^[0-9]+\.[0-9]+\.[0-9]+ : where the three numbers can end.
MatchCore(s) ==
    MatchDigits(s, MatchLiteral(s,
        MatchDigits(s, MatchLiteral(s, MatchDigits(s, {0}), <<".">>)), <<".">>))

MatchRc(s) == MatchDigits(s, MatchLiteral(s, MatchCore(s), <<"-", "r", "c", ".">>))

MatchesVersionRegex_Unanchored(s) == MatchCore(s) \cup MatchRc(s) # {}

MatchesProdRegex_WithRc(s) == Len(s) \in MatchCore(s) \cup MatchRc(s)

\* [[ $VERSION =~ ^[0-9]+\.[0-9]+\.[0-9]+(-rc\.[0-9]+)?$ ]]
MatchesVersionRegex(s) == Len(s) \in MatchCore(s) \cup MatchRc(s)

\* [[ $VERSION =~ ^[0-9]+\.[0-9]+\.[0-9]+$ ]]
MatchesProdRegex(s) == Len(s) \in MatchCore(s)

\* "refs/tags/"
RefsTags == <<"r", "e", "f", "s", "/", "t", "a", "g", "s", "/">>

\* ${GITHUB_REF#refs/*/}: the shortest prefix of the form refs/.../ removed.
StripRefs(ref) ==
    LET ends == {i \in 6..Len(ref) : ref[i] = "/"}
    IN  IF Len(ref) >= 5 /\ SubSeq(ref, 1, 5) = <<"r", "e", "f", "s", "/">> /\ ends # {}
        THEN SubSeq(ref, 1 + CHOOSE i \in ends : \A j \in ends : i <= j, Len(ref))
        ELSE ref

\* ${VERSION#"v"}: one leading v removed.
TrimV(v) == IF Len(v) > 0 /\ v[1] = "v" THEN Tail(v) ELSE v

\* jq ".tags | index(\"$VERSION\")" on a tag list: the position of the first
\* element equal to the version, counted from 0, or null.
IndexStrings == <<"0", "1", "2", "3", "4", "5">>

JqIndex(tags, v) ==
    LET hits == {i \in 1..Len(tags) : tags[i] = v}
    IN  IF hits = {} THEN "null"
        ELSE IndexStrings[CHOOSE i \in hits : \A j \in hits : i <= j]

\* What the lookup's pipeline prints: the registry answers with its tag list,
\* with an error document (which has no tags member, so .tags is null and so
\* is the index), or with nothing jq can read (and jq prints nothing).
AnswerKinds == {"tags", "errors", "unreadable"}

LookupOutput(kind, tags, v) ==
    CASE kind = "tags" -> JqIndex(tags, v)
      [] kind = "errors" -> "null"
      [] OTHER -> ""

\* The tags the workflow is started with: on.push.tags is 'v*'.
Numbers == {<<"1">>, <<"2", "0">>, <<"x">>, <<>>}

Suffixes ==
    {<<>>, <<"-", "r", "c", ".", "1">>, <<"-", "r", "c", ".">>, <<".", "r", "c", ".", "1">>,
     <<"-", "r", "c", ".", "1", "-", "r", "c", ".", "2">>}

Tags ==
    {p \o a \o s \o b \o <<".">> \o c \o x :
        p \in {<<"v">>, <<"v", "v">>}, a \in Numbers, s \in {<<".">>, <<"-">>},
        b \in Numbers, c \in Numbers, x \in Suffixes}

OtherVersion == <<"0", ".", "0", ".", "9">>

TagLists(v) == UNION {[1..k -> {v, OtherVersion}] : k \in 0..MaxTags}

InitRelease ==
    /\ FetchIdle
    /\ TransformIdle
    /\ ParIdle
    /\ GITHUB_REF \in {RefsTags \o t : t \in Tags}
    /\ hasGoreleaser \in BOOLEAN
    /\ tagList \in TagLists(TrimV(StripRefs(GITHUB_REF)))
    /\ VERSION = <<>>
    /\ IDX = "unset"
    /\ step = "goreleaser"
    /\ failedAt = "none"
    /\ built = FALSE
    /\ pushed = FALSE
    /\ runIdTagged = FALSE
    /\ latestTagged = FALSE

\* A step ends with a status other than 0: the job fails and the later steps
\* are skipped.
Fail ==
    /\ step' = "failed"
    /\ failedAt' = step

\* Exit if goreleaser file is missing: test -f .goreleaser.yml
CheckGoreleaserFile ==
    /\ step = "goreleaser"
    /\ IF hasGoreleaser THEN step' = "version" /\ UNCHANGED failedAt ELSE Fail
    /\ UNCHANGED <<fetchVars, transformVars, parVars, GITHUB_REF, hasGoreleaser,
                   tagList, VERSION, IDX, built, pushed, runIdTagged, latestTagged>>

\* Get latest version tag: VERSION=${GITHUB_REF#refs/*/}
GetVersionTag ==
    /\ step = "version"
    /\ VERSION' = StripRefs(GITHUB_REF)
    /\ step' = "trim"
    /\ UNCHANGED <<fetchVars, transformVars, parVars, GITHUB_REF, hasGoreleaser,
                   tagList, IDX, failedAt, built, pushed, runIdTagged, latestTagged>>

\* Get latest trimmed version tag: trim=${VERSION#"v"}; VERSION=${trim}
TrimVersionTag ==
    /\ step = "trim"
    /\ VERSION' = TrimV(VERSION)
    /\ step' = "validate"
    /\ UNCHANGED <<fetchVars, transformVars, parVars, GITHUB_REF, hasGoreleaser,
                   tagList, IDX, failedAt, built, pushed, runIdTagged, latestTagged>>

\* Validate Version String (only accept prod & rc)
ValidateVersion ==
    /\ step = "validate"
    /\ IF MatchesVersionRegex(VERSION)
       THEN step' = "lookup" /\ UNCHANGED failedAt
       ELSE Fail
    /\ UNCHANGED <<fetchVars, transformVars, parVars, GITHUB_REF, hasGoreleaser,
                   tagList, VERSION, IDX, built, pushed, runIdTagged, latestTagged>>

\* Ensure Version Does Not Exist: IDX=$(curl ... | jq ...); [ $IDX == "null" ].
\* With IDX empty the test is an error and the else branch runs.
EnsureVersionDoesNotExist ==
    /\ step = "lookup"
    /\ \E kind \in AnswerKinds :
         /\ IDX' = LookupOutput(kind, tagList, VERSION)
         /\ IF IDX' = "null"
            THEN step' = "build" /\ UNCHANGED failedAt
            ELSE Fail
    /\ UNCHANGED <<fetchVars, transformVars, parVars, GITHUB_REF, hasGoreleaser,
                   tagList, VERSION, built, pushed, runIdTagged, latestTagged>>

\* Set up Go, Increase swapfile, Run GoReleaser, List and Copy artifacts.
RunGoReleaser ==
    /\ step = "build"
    /\ \E ok \in BOOLEAN :
         IF ok
         THEN built' = TRUE /\ step' = "login" /\ UNCHANGED failedAt
         ELSE Fail /\ UNCHANGED built
    /\ UNCHANGED <<fetchVars, transformVars, parVars, GITHUB_REF, hasGoreleaser,
                   tagList, VERSION, IDX, pushed, runIdTagged, latestTagged>>

\* Create config and annotations files, install ORAS, log in to the registry.
LogIn ==
    /\ step = "login"
    /\ \E ok \in BOOLEAN :
         IF ok THEN step' = "push" /\ UNCHANGED failedAt ELSE Fail
    /\ UNCHANGED <<fetchVars, transformVars, parVars, GITHUB_REF, hasGoreleaser,
                   tagList, VERSION, IDX, built, pushed, runIdTagged, latestTagged>>

\* Push to the container registry: oras push $REF ...  The script runs under
\* bash -e, so a failing command ends the step.
OrasPush ==
    /\ step = "push"
    /\ \E ok \in BOOLEAN :
         IF ok
         THEN pushed' = TRUE /\ step' = "tagRunId" /\ UNCHANGED failedAt
         ELSE Fail /\ UNCHANGED pushed
    /\ UNCHANGED <<fetchVars, transformVars, parVars, GITHUB_REF, hasGoreleaser,
                   tagList, VERSION, IDX, built, runIdTagged, latestTagged>>

\* oras tag $REF $GITHUB_RUN_ID
OrasTagRunId ==
    /\ step = "tagRunId"
    /\ \E ok \in BOOLEAN :
         IF ok
         THEN runIdTagged' = TRUE /\ step' = "tagLatest" /\ UNCHANGED failedAt
         ELSE Fail /\ UNCHANGED runIdTagged
    /\ UNCHANGED <<fetchVars, transformVars, parVars, GITHUB_REF, hasGoreleaser,
                   tagList, VERSION, IDX, built, pushed, latestTagged>>

\* if [[ $VERSION =~ ^[0-9]+\.[0-9]+\.[0-9]+$ ]]; then oras tag $REF $LATEST_REF
TagLatest ==
    /\ step = "tagLatest"
    /\ IF MatchesProdRegex(VERSION)
       THEN \E ok \in BOOLEAN :
              IF ok
              THEN latestTagged' = TRUE /\ step' = "success" /\ UNCHANGED failedAt
              ELSE Fail /\ UNCHANGED latestTagged
       ELSE step' = "success" /\ UNCHANGED <<failedAt, latestTagged>>
    /\ UNCHANGED <<fetchVars, transformVars, parVars, GITHUB_REF, hasGoreleaser,
                   tagList, VERSION, IDX, built, pushed, runIdTagged>>

NextRelease ==
    \/ CheckGoreleaserFile
    \/ GetVersionTag
    \/ TrimVersionTag
    \/ ValidateVersion
    \/ EnsureVersionDoesNotExist
    \/ RunGoReleaser
    \/ LogIn
    \/ OrasPush
    \/ OrasTagRunId
    \/ TagLatest

SpecRelease == InitRelease /\ [][NextRelease]_vars

\* ----- the version forms, stated without the regular expressions
IsDecimal(s) == Len(s) > 0 /\ \A i \in 1..Len(s) : s[i] \in Digits

\* MAJOR.MINOR.PATCH
ProdForm(v) ==
    \E i, j \in 1..Len(v) :
        /\ i < j /\ v[i] = "." /\ v[j] = "."
        /\ IsDecimal(SubSeq(v, 1, i - 1))
        /\ IsDecimal(SubSeq(v, i + 1, j - 1))
        /\ IsDecimal(SubSeq(v, j + 1, Len(v)))

\* MAJOR.MINOR.PATCH-rc.N
RcForm(v) ==
    \E k \in 1..Len(v) :
        /\ k + 3 <= Len(v)
        /\ v[k] = "-" /\ v[k + 1] = "r" /\ v[k + 2] = "c" /\ v[k + 3] = "."
        /\ ProdForm(SubSeq(v, 1, k - 1))
        /\ IsDecimal(SubSeq(v, k + 4, Len(v)))

\* The tag that started the run, and it with one leading v removed.
PushedTag == SubSeq(GITHUB_REF, Len(RefsTags) + 1, Len(GITHUB_REF))

TagVersion == IF PushedTag[1] = "v" THEN Tail(PushedTag) ELSE PushedTag

JobEnded == step \in {"success", "failed"}

C16_ExistingVersionNeverPushed ==
    pushed => \A i \in 1..Len(tagList) : tagList[i] # VERSION

MaxTokens == 1

Fetches == {"A", "B"}

ParListFns == {"listIamRoleDefinitions", "listBackendAddressPools"}

ParFns == ParListFns \cup {"getIamRoleDefinition"}

\* The item counts of the pages a list is answered with.
ParPageLens == {<<2>>, <<1, 1>>}

ParBudgets == {0, 1, 2}

\* The session of the connection: the fetches read its fields to build a client.
TheSession ==
    [SubscriptionID |-> "subscription", ResourceManagerEndpoint |-> "endpoint",
     Authorizer |-> "authorizer"]

ParRowsRemaining_SharedCount(f) ==
    LET streamed == Len(femitted["A"]) + Len(femitted["B"])
    IN  IF fbudget[f] = 0 THEN 1
        ELSE IF streamed >= fbudget[f] THEN 0 ELSE fbudget[f] - streamed

\* d.RowsRemaining(ctx) of the fetch's own query.
ParRowsRemaining(f) ==
    IF fbudget[f] = 0 THEN 1
    ELSE IF Len(femitted[f]) >= fbudget[f] THEN 0 ELSE fbudget[f] - Len(femitted[f])

\* The inputs of one fetch: function, pages, failing call, budget.
FetchInputs ==
    {<<g, MkPages(l), e, b>> :
        g \in ParListFns, l \in ParPageLens, e \in 0..2, b \in ParBudgets}
    \cup {<<"getIamRoleDefinition", MkPages(<<1>>), e, 0>> : e \in 0..1}

InitPar ==
    /\ FetchIdle
    /\ TransformIdle
    /\ ReleaseIdle
    /\ session = TheSession
    /\ tokens \in 0..MaxTokens
    /\ \E in \in [Fetches -> {i \in FetchInputs : i[3] <= Len(i[2])}] :
         /\ ffn = [f \in Fetches |-> in[f][1]]
         /\ fpages = [f \in Fetches |-> in[f][2]]
         /\ ferrAt = [f \in Fetches |-> in[f][3]]
         /\ fbudget = [f \in Fetches |-> in[f][4]]
    /\ fpc = [f \in Fetches |-> "session"]
    /\ fcalls = [f \in Fetches |-> 0]
    /\ fpage = [f \in Fetches |-> 0]
    /\ fidx = [f \in Fetches |-> 0]
    /\ femitted = [f \in Fetches |-> <<>>]
    /\ fret = [f \in Fetches |-> <<"none", "none">>]

\* return v, e in fetch f
ParReturn(f, v, e) ==
    /\ fpc' = [fpc EXCEPT ![f] = "returned"]
    /\ fret' = [fret EXCEPT ![f] = <<v, e>>]

\* session, err := GetNewSession(ctx, d, "MANAGEMENT"); the client is built
\* from session.SubscriptionID, session.ResourceManagerEndpoint and
\* session.Authorizer.
ParGetNewSession ==
    \E f \in Fetches :
        /\ fpc[f] = "session"
        /\ session.SubscriptionID = "subscription"
        /\ fpc' = [fpc EXCEPT ![f] = "retry"]
        /\ UNCHANGED <<fetchVars, transformVars, releaseVars, session, tokens, ffn,
                       fpages, ferrAt, fbudget, fcalls, fpage, fidx, femitted, fret>>

\* ApplyRetryRules(ctx, &client, d.Connection)
ParApplyRetryRules ==
    \E f \in Fetches :
        /\ fpc[f] = "retry"
        /\ fpc' = [fpc EXCEPT ![f] = "call"]
        /\ UNCHANGED <<fetchVars, transformVars, releaseVars, session, tokens, ffn,
                       fpages, ferrAt, fbudget, fcalls, fpage, fidx, femitted, fret>>

\* client.List(ctx, ...), client.Get(ctx, ...) or result.NextWithContext(ctx)
\* is sent to the provider.
ParCall ==
    \E f \in Fetches :
        /\ fpc[f] \in {"call", "next"}
        /\ fcalls' = [fcalls EXCEPT ![f] = @ + 1]
        /\ fpc' = [fpc EXCEPT ![f] = "inflight"]
        /\ UNCHANGED <<fetchVars, transformVars, releaseVars, session, tokens, ffn,
                       fpages, ferrAt, fbudget, fpage, fidx, femitted, fret>>

\* The provider answers: if err != nil { return nil, err }; a Get returns the
\* resource, a list goes on to range over result.Values().
ParRespond ==
    \E f \in Fetches :
        /\ fpc[f] = "inflight"
        /\ IF fcalls[f] = ferrAt[f]
           THEN ParReturn(f, "nil", "err") /\ UNCHANGED <<fpage, fidx>>
           ELSE IF ffn[f] \in ParListFns
                THEN /\ fpage' = [fpage EXCEPT ![f] = @ + 1]
                     /\ fidx' = [fidx EXCEPT ![f] = 0]
                     /\ fpc' = [fpc EXCEPT ![f] = "stream"]
                     /\ UNCHANGED fret
                ELSE ParReturn(f, "row", "nil") /\ UNCHANGED <<fpage, fidx>>
        /\ UNCHANGED <<fetchVars, transformVars, releaseVars, session, tokens, ffn,
                       fpages, ferrAt, fbudget, fcalls, femitted>>

\* for _, item := range result.Values() { d.StreamListItem(ctx, item) ...
ParStreamListItem ==
    \E f \in Fetches :
        /\ fpc[f] = "stream"
        /\ IF fidx[f] < Len(fpages[f][fpage[f]])
           THEN /\ femitted' = [femitted EXCEPT
                                   ![f] = Append(@, fpages[f][fpage[f]][fidx[f] + 1])]
                /\ fidx' = [fidx EXCEPT ![f] = @ + 1]
                /\ fpc' = [fpc EXCEPT ![f] = "rows"]
           ELSE /\ fpc' = [fpc EXCEPT ![f] = "notdone"]
                /\ UNCHANGED <<femitted, fidx>>
        /\ UNCHANGED <<fetchVars, transformVars, releaseVars, session, tokens, ffn,
                       fpages, ferrAt, fbudget, fcalls, fpage, fret>>

\* if d.RowsRemaining(ctx) == 0 { return nil, nil }
ParCheckRowsRemaining ==
    \E f \in Fetches :
        /\ fpc[f] = "rows"
        /\ IF ParRowsRemaining(f) = 0
           THEN ParReturn(f, "nil", "nil")
           ELSE fpc' = [fpc EXCEPT ![f] = "stream"] /\ UNCHANGED fret
        /\ UNCHANGED <<fetchVars, transformVars, releaseVars, session, tokens, ffn,
                       fpages, ferrAt, fbudget, fcalls, fpage, fidx, femitted>>

\* for result.NotDone() { ... }; return nil, err
ParCheckNotDone ==
    \E f \in Fetches :
        /\ fpc[f] = "notdone"
        /\ IF fpage[f] < Len(fpages[f])
           THEN fpc' = [fpc EXCEPT ![f] = "wait"] /\ UNCHANGED fret
           ELSE ParReturn(f, "nil", "nil")
        /\ UNCHANGED <<fetchVars, transformVars, releaseVars, session, tokens, ffn,
                       fpages, ferrAt, fbudget, fcalls, fpage, fidx, femitted>>

\* d.WaitForListRateLimit(ctx): the fetch goes on once it has taken a token of
\* the limiter the fetches share.
ParWaitForListRateLimit ==
    \E f \in Fetches :
        /\ fpc[f] = "wait"
        /\ tokens > 0
        /\ tokens' = tokens - 1
        /\ fpc' = [fpc EXCEPT ![f] = "next"]
        /\ UNCHANGED <<fetchVars, transformVars, releaseVars, session, ffn, fpages,
                       ferrAt, fbudget, fcalls, fpage, fidx, femitted, fret>>

\* The limiter gains a token as time passes.
Refill ==
    /\ tokens < MaxTokens
    /\ \E f \in Fetches : fpc[f] # "returned"
    /\ tokens' = tokens + 1
    /\ UNCHANGED <<fetchVars, transformVars, releaseVars, session, ffn, fpages,
                   ferrAt, fbudget, fpc, fcalls, fpage, fidx, femitted, fret>>

NextPar ==
    \/ ParGetNewSession
    \/ ParApplyRetryRules
    \/ ParCall
    \/ ParRespond
    \/ ParStreamListItem
    \/ ParCheckRowsRemaining
    \/ ParCheckNotDone
    \/ ParWaitForListRateLimit
    \/ Refill

SpecPar == InitPar /\ [][NextPar]_vars

\* ----- what a fetch does when it runs alone, computed from its inputs
\* The pages it receives before a call fails.
SoloPages(f) == IF ferrAt[f] = 0 THEN Len(fpages[f]) ELSE ferrAt[f] - 1

SoloBudgetHit(f) ==
    fbudget[f] > 0 /\ Len(Concat(fpages[f], SoloPages(f))) >= fbudget[f]

SoloEmitted(f) ==
    IF ffn[f] \notin ParListFns THEN <<>>
    ELSE IF SoloBudgetHit(f)
         THEN SubSeq(Concat(fpages[f], SoloPages(f)), 1, fbudget[f])
         ELSE Concat(fpages[f], SoloPages(f))

SoloResult(f) ==
    IF ffn[f] \in ParListFns
    THEN IF ferrAt[f] # 0 /\ ~SoloBudgetHit(f) THEN <<"nil", "err">>
         ELSE <<"nil", "nil">>
    ELSE IF ferrAt[f] # 0 THEN <<"nil", "err">> ELSE <<"row", "nil">>

C21_SessionFailureReturnsAtOnce ==
    sessionErr # "nil" =>
        /\ Returned
        /\ retVal = "nil" /\ retErr = sessionErr
        /\ \A i \in 1..Len(log) :
               log[i] \notin ProviderCalls
                   \cup {"ApplyRetryRules", "WaitForListRateLimit", "StreamListItem"}
        /\ emitted = <<>> /\ ~retryApplied /\ call = "none"

\* GetNewSession failed in getSecurityCenterDetails, which has a row at hand
\* as soon as it has a session.
C21_Witness ==
    /\ fn = "getSecurityCenterDetails"
    /\ sessionErr = "SessionError"
    /\ Returned /\ retErr = "SessionError"

\* ================================================== termination (C22)
\* A step of the function or of the host: every action but the caller's
\* cancellation, which may never come.
FetchStep ==
    \/ CheckQuals
    \/ GetNewSession
    \/ ApplyRetryRules
    \/ FirstCall
    \/ Respond
    \/ HandleListResult
    \/ HandleGetResult
    \/ StreamListItem
    \/ CheckRowsRemaining
    \/ RangeEnd
    \/ CheckNotDone
    \/ WaitForListRateLimit
    \/ NextWithContext
    \/ Host

\* The goroutine running the function is scheduled, the provider answers every
\* call and WaitForListRateLimit returns: a step that can be taken is taken.
SpecLive == Init /\ [][Next]_vars /\ WF_vars(FetchStep)

\* C22: every paginated list function eventually returns, with or without a
\* budget and whether or not a page fetch fails, the provider having finitely
\* many pages and WaitForListRateLimit returning.
C22_PaginatedListTerminates == (fn \in PaginatedListFns) ~> Returned

\* A list without a budget has returned after fetching all the pages.
C22_Witness ==
    /\ fn \in PaginatedListFns /\ Returned
    /\ budget = 0 /\ page = MaxPages /\ ~IsError(resp)
    /\ Count(log, "WaitForListRateLimit") = MaxPages - 1

\* ================================================== map builders (C23)
\* A pointer field is "nil" or "set"; a string field is "" or a value. The
\* lists hold at most MaxItems source items.
MaxItems == 1

Pointers == {"nil", "set"}

\* make(map[string]interface{}) and objectMap[k] = v
EmptyMap == [k \in {} |-> "nil"]

Put(m, k, v) == [x \in DOMAIN m \cup {k} |-> IF x = k THEN v ELSE m[x]]

\* insights.DiagnosticSettingsResource
DiagnosticSettingsResources ==
    [ID : Pointers, Name : Pointers, Type : Pointers, DiagnosticSettings : Pointers]

\* appconfiguration.PrivateEndpointConnectionReference, its nested structs laid
\* out flat: Properties, PrivateEndpoint and State are the pointers to them, and
\* the fields below a nil pointer are left at their zero values.
PrivateEndpointConnectionReferences ==
    {r \in [ID : Pointers, Name : Pointers, Type : Pointers,
            Properties : Pointers,
            PrivateEndpoint : Pointers, PrivateEndpointID : Pointers,
            State : Pointers, ActionsRequired : {"", "Recreate"},
            Status : {"", "Approved"}, Description : Pointers,
            ProvisioningState : {"", "Succeeded"}] :
        /\ r.Properties = "nil" =>
               (r.PrivateEndpoint = "nil" /\ r.State = "nil" /\ r.ProvisioningState = "")
        /\ r.PrivateEndpoint = "nil" => r.PrivateEndpointID = "nil"
        /\ r.State = "nil" =>
               (r.ActionsRequired = "" /\ r.Status = "" /\ r.Description = "nil")
        /\ r.State = "set" =>
               \/ (r.ActionsRequired = "" /\ r.Status = "" /\ r.Description = "nil")
               \/ (r.ActionsRequired # "" /\ r.Status # "" /\ r.Description = "set")}

\* A pointer to a list of items: <<>> is nil, <<l>> points to l.
ListPointers(items) ==
    {<<>>} \cup {<<l>> : l \in UNION {[1..k -> items] : k \in 0..MaxItems}}

\* The body of the loop of listAppConfigurationDiagnosticSettings.
DiagnosticSettingsMap(i) ==
    LET m1 == IF i.ID # "nil" THEN Put(EmptyMap, "id", i.ID) ELSE EmptyMap
        m2 == IF i.Name # "nil" THEN Put(m1, "name", i.Name) ELSE m1
        m3 == IF i.Type # "nil" THEN Put(m2, "type", i.Type) ELSE m2
    IN  IF i.DiagnosticSettings # "nil"
        THEN Put(m3, "properties", i.DiagnosticSettings) ELSE m3

\* The body of the loop of extractAppConfigurationPrivateEndpointConnections:
\* the three tests in front of id, name and type are all `i.ID != nil`.
PrivateEndpointConnectionMap(i) ==
    LET m1 == IF i.ID # "nil" THEN Put(EmptyMap, "id", i.ID) ELSE EmptyMap
        m2 == IF i.ID # "nil" THEN Put(m1, "name", i.Name) ELSE m1
        m3 == IF i.ID # "nil" THEN Put(m2, "type", i.Type) ELSE m2
        m4 == IF i.Properties # "nil" /\ i.PrivateEndpoint # "nil"
              THEN Put(m3, "privateEndpointPropertyId", i.PrivateEndpointID) ELSE m3
        m5 == IF i.Properties # "nil" /\ i.State # "nil" /\ i.ActionsRequired # ""
              THEN Put(m4, "privateLinkServiceConnectionStateActionsRequired",
                       i.ActionsRequired)
              ELSE m4
        m6 == IF i.Properties # "nil" /\ i.State # "nil" /\ i.Status # ""
              THEN Put(m5, "privateLinkServiceConnectionStateStatus", i.Status)
              ELSE m5
        m7 == IF i.Properties # "nil" /\ i.State # "nil" /\ i.Description # "nil"
              THEN Put(m6, "privateLinkServiceConnectionStateDescription",
                       i.Description)
              ELSE m6
    IN  IF i.Properties # "nil" /\ i.ProvisioningState # ""
        THEN Put(m7, "provisioningState", i.ProvisioningState) ELSE m7

MapFns ==
    {"listAppConfigurationDiagnosticSettings",
     "extractAppConfigurationPrivateEndpointConnections"}

InitMaps ==
    /\ FetchIdle
    /\ ReleaseIdle
    /\ ParIdle
    /\ tfn \in MapFns
    /\ item \in (IF tfn = "listAppConfigurationDiagnosticSettings"
                 THEN ListPointers(DiagnosticSettingsResources)
                 ELSE ListPointers(PrivateEndpointConnectionReferences))
    /\ tpc = "call"
    /\ out = <<>>
    /\ outErr = "nil"

\* listAppConfigurationDiagnosticSettings after client.List succeeded:
\* for _, i := range *op.Value { ... append(diagnosticSettings, objectMap) }.
\* *op.Value with op.Value nil is a nil pointer dereference: the call panics.
BuildDiagnosticSettings ==
    /\ tpc = "call" /\ tfn = "listAppConfigurationDiagnosticSettings"
    /\ IF item = <<>>
       THEN out' = <<>> /\ outErr' = "panic"
       ELSE /\ out' = [k \in 1..Len(item[1]) |-> DiagnosticSettingsMap(item[1][k])]
            /\ outErr' = "nil"
    /\ tpc' = "returned"
    /\ UNCHANGED <<fetchVars, releaseVars, parVars, tfn, item>>

\* extractAppConfigurationPrivateEndpointConnections: the loop runs when
\* PrivateEndpointConnections is not nil; properties stays nil otherwise.
ExtractPrivateEndpointConnections ==
    /\ tpc = "call" /\ tfn = "extractAppConfigurationPrivateEndpointConnections"
    /\ out' = IF item = <<>> THEN <<>>
              ELSE [k \in 1..Len(item[1]) |-> PrivateEndpointConnectionMap(item[1][k])]
    /\ outErr' = "nil"
    /\ tpc' = "returned"
    /\ UNCHANGED <<fetchVars, releaseVars, parVars, tfn, item>>

NextMaps ==
    \/ BuildDiagnosticSettings
    \/ ExtractPrivateEndpointConnections

SpecMaps == InitMaps /\ [][NextMaps]_vars

\* The source items the maps are built from.
SourceItems == IF item = <<>> THEN <<>> ELSE item[1]

\* The field of source item i a key of the output map stands for.
FieldOf(i, key) ==
    CASE key = "id" -> i.ID
      [] key = "name" -> i.Name
      [] key = "type" -> i.Type
      [] key = "properties" -> i.DiagnosticSettings
      [] key = "privateEndpointPropertyId" -> i.PrivateEndpointID
      [] key = "privateLinkServiceConnectionStateActionsRequired" -> i.ActionsRequired
      [] key = "privateLinkServiceConnectionStateStatus" -> i.Status
      [] key = "privateLinkServiceConnectionStateDescription" -> i.Description
      [] OTHER -> i.ProvisioningState

\* C23: there is exactly one output map per source item, in source order; a
\* map has a key only when the field it stands for is non-nil in that item,
\* and no entry of a map holds a nil pointer.
C23_MapsHoldOnlyNonNilFields ==
    (tfn \in MapFns /\ tpc = "returned") =>
        /\ Len(out) = Len(SourceItems)
        /\ \A k \in 1..Len(out) : \A key \in DOMAIN out[k] :
               /\ FieldOf(SourceItems[k], key) # "nil"
               /\ out[k][key] = FieldOf(SourceItems[k], key)

====
